---- MODULE Spec2Model ----
(***************************************************************************)
(* State-machine model of the rag_agent retrieval / rerank / generate      *)
(* pipeline and of its retry wrapper (specification Spec), of the chunker  *)
(* (SpecChunk), of similarity_search called directly (SpecSearch), of      *)
(* ingestion into the documents table by concurrent workers (SpecStore)    *)
(* and of the lazily constructed client handles under threads              *)
(* (SpecClients).  Each specification leaves the variables of the others   *)
(* at their idle values.                                                   *)
(*                                                                         *)
(* One invocation runs at a time (the code is synchronous): `op` is the    *)
(* entry point that was called, `pc` the stage it has reached, `w` the     *)
(* activation record of the retry wrapper that is currently on the stack.  *)
(* Scores and delays are floats in the code; the model uses small          *)
(* integers, on which *, min and the comparisons used are exact.           *)
(***************************************************************************)
EXTENDS Integers, Sequences, FiniteSets, TLC

VARIABLES
    settings,     \* settings.Settings, frozen at import
    store,        \* committed rows of the documents table, listed by (doc_id, chunk_id)
    clients,      \* the lazily constructed module-level client handles
    op,           \* entry point invoked: "none", "call", "rerank", "qa", "section"
    pc,           \* stage of the invocation
    policy,       \* decorator arguments of the wrapper on the stack
    w,            \* locals of retry.wrapper (attempt, delay, ...)
    calls,        \* provider round trips made by this invocation, per collaborator
    num_sources,  \* argument of generate_scientific_section
    retrieved,    \* result of similarity_search
    candidates,   \* argument of rerank
    response,     \* rerank: message content the provider answered with
    ranked,       \* result of rerank
    context,      \* chunks put into the generation prompt
    result,       \* value returned by the entry point
    error,        \* exception that left the entry point
    in_doc_id,    \* chunk_text: the doc_id argument
    in_text,      \* chunk_text: the text argument, a sequence of characters
    sentences,    \* chunk_text: result of split_sentences
    sidx,         \* _chunk_tokens: sentences the for loop has consumed
    window,       \* _chunk_tokens: window, as positions in `sentences`
    token_counts, \* _chunk_tokens: token_counts
    yielded,      \* _chunk_tokens: what the generator has yielded so far
    chunks,       \* chunk_text: the list it builds and returns
    environ,      \* os.environ, as far as settings reads it for the chunker
    cites,        \* generate_scientific_section: the citations list
    cite_forms,   \* the in_text form of each citation, as put into the context
    ref_list,     \* result of _build_harvard_references
    act,          \* per caller: locals of its activation of retry.wrapper
    prev_sleeps,  \* per caller: the sleeps of its previous call (history)
    in_limit,     \* similarity_search: the limit argument of a direct call
    tx,           \* per ingestion worker: its ingest_file call and open session
    lastUpsert,   \* per key: the values of the upsert committed last (history)
    lastIngest,   \* per doc_id: the chunks of the ingestion committed last (history)
    handle,       \* per module: the module-level _client global
    built,        \* per module: client constructors run so far (history)
    thread        \* per thread: its call of a _get_client function

\* variables of the chunker, of the direct search, of ingestion, of the clients
chunkVars == <<in_doc_id, in_text, sentences, sidx, window, token_counts, yielded, chunks,
               environ>>

citeVars == <<cites, cite_forms, ref_list>>

retryVars == <<act, prev_sleeps>>

aux == <<chunkVars, in_limit, tx, lastUpsert, lastIngest, handle, built, thread,
         citeVars, retryVars>>

vars == <<settings, store, clients, op, pc, policy, w, calls, num_sources,
          retrieved, candidates, response, ranked, context, result, error, aux>>

----------------------------------------------------------------------------
(* Bounds of the model *)

\* largest max_retries given to a directly decorated function
MaxRetries == 2
\* longest candidate list passed to rerank by a direct caller
MaxCands == 2
\* longest ranking list in a rerank provider response
MaxRanking == 2

----------------------------------------------------------------------------
(* Program constants *)

DefaultExponentialBase == 2
DefaultMaxDelay == 60
ProviderMaxRetries == 3
ProviderInitialDelay == 1
DefaultKnnK == 8
DefaultNumSources == 8
QaContextSize == 3

----------------------------------------------------------------------------
(* Helpers *)

Min(a, b) == IF a <= b THEN a ELSE b

SeqsUpTo(S, n) == UNION {[1..k -> S] : k \in 0..n}

Front(s) == SubSeq(s, 1, Len(s) - 1)

Last(s) == s[Len(s)]

Take(s, n) == SubSeq(s, 1, Min(n, Len(s)))

\* str.strip()
strip(s) ==
    LET solid == {i \in 1..Len(s) : s[i] # " "}
    IN  IF solid = {} THEN <<>>
        ELSE SubSeq(s, CHOOSE i \in solid : \A j \in solid : i <= j,
                       CHOOSE i \in solid : \A j \in solid : i >= j)

----------------------------------------------------------------------------
(* Exceptions.  An exception value carries its class, the collaborator or  *)
(* function that raised it, and the number of the invocation that raised   *)
(* it, so that two errors of the same class are told apart.                *)

OpenAIErrors == {"APIConnectionError", "APITimeoutError", "RateLimitError", "APIError"}

AnthropicErrors == {"AnthropicConnectionError", "AnthropicTimeoutError",
                    "AnthropicRateLimitError", "AnthropicAPIError"}

OtherErrors == {"RuntimeError", "ValueError", "AttributeError", "TypeError"}

\* retryable_exceptions=(Exception,): every class matches
AnyException == OpenAIErrors \cup AnthropicErrors \cup OtherErrors

NoExc == [kind |-> "none", from |-> "none", n |-> 0]

Exc(kind, from, n) == [kind |-> kind, from |-> from, n |-> n]

\* outcome of one execution of a function body
Returns(v) == [ok |-> TRUE, value |-> v, exc |-> NoExc, called |-> FALSE]

Raises(kind, from) == [ok |-> FALSE, value |-> <<>>, exc |-> Exc(kind, from, 0), called |-> FALSE]

\* the same outcome, reached after a provider round trip
AfterCall(outcome) == [outcome EXCEPT !.called = TRUE]

----------------------------------------------------------------------------
(* retry.retry_with_exponential_backoff                                    *)

NoPolicy == [max_retries |-> 0, initial_delay |-> 0, exponential_base |-> 0,
             max_delay |-> 0, retryable_exceptions |-> {}]

NoWrapper == [pc |-> "none", attempt |-> 0, delay |-> 0, calls |-> 0,
              sleeps |-> <<>>, exc |-> NoExc, out |-> NoExc]
\* variant: the delay a call starts with is the one an earlier call left
\* at the cap
WrapperEnterAtCap(p) == [pc |-> "try", attempt |-> 0, delay |-> p.max_delay, calls |-> 0,
                         sleeps |-> <<>>, exc |-> NoExc, out |-> NoExc]

\* wrapper entry: delay = initial_delay, first iteration of the for loop
WrapperEnter(p) == [pc |-> "try", attempt |-> 0, delay |-> p.initial_delay, calls |-> 0,
                    sleeps |-> <<>>, exc |-> NoExc, out |-> NoExc]

\* `return func(*args, **kwargs)` returned normally
WrapperOnReturn(a) == [a EXCEPT !.pc = "returned", !.calls = @ + 1, !.exc = NoExc]

\* the backoff update of line 52
NextDelay(delay, p) == Min(delay * p.exponential_base, p.max_delay)

\* variant: the loop runs one iteration too many
BudgetExhaustedLate(a, p) == a.attempt = p.max_retries + 1

\* the budget test of line 43
BudgetExhausted(a, p) == a.attempt = p.max_retries

\* variant: `except Exception`, every class is retried
WrapperOnRaiseCatchAll(a, p, e) ==
    LET ex == [e EXCEPT !.n = a.calls + 1]
        b == [a EXCEPT !.calls = @ + 1, !.exc = ex]
    IN  IF BudgetExhausted(a, p)
        THEN [b EXCEPT !.pc = "raised", !.out = ex]
        ELSE [b EXCEPT !.pc = "sleep",
                       !.delay = NextDelay(a.delay, p),
                       !.sleeps = Append(@, NextDelay(a.delay, p))]

\* func raised e: the except clause, or propagation when the class does not match
WrapperOnRaise(a, p, e) ==
    LET ex == [e EXCEPT !.n = a.calls + 1]
        b == [a EXCEPT !.calls = @ + 1, !.exc = ex]
    IN  IF ex.kind \notin p.retryable_exceptions
        THEN [b EXCEPT !.pc = "raised", !.out = ex]
        ELSE IF BudgetExhausted(a, p)
        THEN [b EXCEPT !.pc = "raised", !.out = ex]
        ELSE [b EXCEPT !.pc = "sleep",
                       !.delay = NextDelay(a.delay, p),
                       !.sleeps = Append(@, NextDelay(a.delay, p))]

\* time.sleep(delay) returned: next iteration of the for loop
WrapperAfterSleep(a) == [a EXCEPT !.pc = "try", !.attempt = @ + 1, !.exc = NoExc]

\* one pass through the try statement with the given outcome of func
WrapperStep(a, p, outcome) ==
    IF outcome.ok THEN WrapperOnReturn(a) ELSE WrapperOnRaise(a, p, outcome.exc)

\* decorator arguments at the three decorated provider functions
OpenAIPolicy == [max_retries |-> ProviderMaxRetries, initial_delay |-> ProviderInitialDelay,
                 exponential_base |-> DefaultExponentialBase, max_delay |-> DefaultMaxDelay,
                 retryable_exceptions |-> OpenAIErrors]

GeneratePolicy == [OpenAIPolicy EXCEPT !.retryable_exceptions = OpenAIErrors \cup AnthropicErrors]

----------------------------------------------------------------------------
(* settings.Settings: the fields the pipeline reads.  An empty            *)
(* rerank_provider disables reranking (needs_rerank); an absent API key   *)
(* is modelled by FALSE.                                                   *)

Settings(rerank_provider, openai_api_key, llm_provider, anthropic_api_key, knn_k) ==
    [rerank_provider |-> rerank_provider, openai_api_key |-> openai_api_key,
     llm_provider |-> llm_provider, anthropic_api_key |-> anthropic_api_key,
     knn_k |-> knn_k]

\* the process environments the model is run in
Environments ==
    { Settings("openai", TRUE,  "anthropic", TRUE,  DefaultKnnK),
      Settings("",       FALSE, "anthropic", TRUE,  DefaultKnnK),
      Settings("openai", FALSE, "anthropic", TRUE,  DefaultKnnK),
      Settings("",       TRUE,  "openai",    FALSE, 2),
      Settings("",       TRUE,  "anthropic", FALSE, DefaultKnnK) }

needs_rerank(s) == s.rerank_provider # ""

has_embedding_credentials(s) == s.openai_api_key

\* The import of the settings module, as far as the chunker depends on it.
\* A variable of os.environ is unset, or holds text that int() rejects, or
\* holds the text of an integer.
EnvUnset == [set |-> FALSE, int |-> FALSE, n |-> 0]

EnvNotInt == [set |-> TRUE, int |-> FALSE, n |-> 0]

EnvInt(n) == [set |-> TRUE, int |-> TRUE, n |-> n]

DefaultMaxTokens == 220
DefaultOverlapTokens == 40

\* the process started without MAX_TOKENS and OVERLAP_TOKENS
UnsetEnviron == [MAX_TOKENS |-> EnvUnset, OVERLAP_TOKENS |-> EnvUnset]

\* _get_int(key, default, min_value): the integer, or a ValueError
get_int(value, default, min_value) ==
    IF ~value.set THEN [ok |-> TRUE, v |-> default]
    ELSE IF ~value.int THEN [ok |-> FALSE, v |-> 0]
    ELSE IF value.n < min_value THEN [ok |-> FALSE, v |-> 0]
    ELSE [ok |-> TRUE, v |-> value.n]

\* variant: every pair of limits passes
validate_nothing(s) == TRUE

\* _validate_settings does not raise
validate_settings(s) == ~(s.overlap_tokens >= s.max_tokens)

\* the settings module has not been imported (or its import failed)
NotLoaded == [max_tokens |-> 0, overlap_tokens |-> 0]

\* settings = Settings() and _validate_settings(): the settings object, or
\* the ValueError that ends the import
load_settings(env) ==
    LET max_tokens == get_int(env.MAX_TOKENS, DefaultMaxTokens, 1)
        overlap_tokens == get_int(env.OVERLAP_TOKENS, DefaultOverlapTokens, 0)
        loaded == [max_tokens |-> max_tokens.v, overlap_tokens |-> overlap_tokens.v]
    IN  IF max_tokens.ok /\ overlap_tokens.ok /\ validate_settings(loaded)
        THEN [ok |-> TRUE, settings |-> loaded]
        ELSE [ok |-> FALSE, settings |-> NotLoaded]

----------------------------------------------------------------------------
(* Lazily constructed client handles: embeddings._client, rerank._client, *)
(* llm._anthropic_client, llm._openai_client.                             *)

\* _get_client / _get_anthropic / _get_openai return a handle (they do not raise)
ClientAvailable(name, cl, key) == name \in cl \/ key

\* the handle set once the getter ran
ClientsAfter(name, cl, key) == IF ClientAvailable(name, cl, key) THEN cl \cup {name} ELSE cl

----------------------------------------------------------------------------
(* Stored rows, retrieved chunks and rerank candidates                     *)

Meta(doc_id) == [source |-> doc_id]

\* the embedding stored with a chunk: the vector computed from its content
Vector(content) == [of |-> content]

\* a JSON null in the meta column
JsonNull == [null |-> TRUE]

\* {} as a Python dict / JSON object
EmptyMap == [k \in {} |-> 0]

\* row.meta or {}
MetaOrEmpty(meta) == IF meta = JsonNull \/ meta = EmptyMap THEN EmptyMap ELSE meta

Row(doc_id, chunk_id, content) ==
    [doc_id |-> doc_id, chunk_id |-> chunk_id, content |-> content,
     embedding |-> Vector(content), meta |-> Meta(doc_id)]

\* the documents table after two two-chunk documents were ingested
FullStore == << Row("d1", 0, "t10"), Row("d1", 1, "t11"),
                Row("d2", 0, "t20"), Row("d2", 1, "t21") >>

\* similarity levels (1 - cosine distance) a query gives a row
Scores == {1, 2}

\* the queries of the model: the score each gives the rows of FullStore
Queries == { <<2, 2, 2, 2>>, <<1, 2, 1, 2>>, <<2, 1, 1, 1>> }

Chunk(row, score) ==
    [doc_id |-> row.doc_id, chunk_id |-> row.chunk_id, content |-> row.content,
     score |-> score, meta |-> MetaOrEmpty(row.meta)]

Key(c) == <<c.doc_id, c.chunk_id>>

Keys(seq) == [i \in 1..Len(seq) |-> Key(seq[i])]

\* candidate lists a direct caller of rerank passes
DirectCandidates ==
    {Chunk(Row(d, 0, "t"), sc) : d \in {"d1", "d2"}, sc \in Scores}

----------------------------------------------------------------------------
(* retrieval.similarity_search                                             *)

\* rows ORDER BY embedding <=> :embedding, i.e. by decreasing score;
\* sc[i] is the score the query gives rows[i]
RECURSIVE OrderByDistance(_, _)
OrderByDistance(rows, sc) ==
    IF rows = <<>> THEN <<>>
    ELSE LET done == OrderByDistance(Front(rows), Front(sc))
             x == Chunk(Last(rows), Last(sc))
             idx == Cardinality({i \in 1..Len(done) : done[i].score >= x.score})
         IN  SubSeq(done, 1, idx) \o <<x>> \o SubSeq(done, idx + 1, Len(done))

\* the default of the limit parameter: None
LimitNone == -1

\* the limit were the configured width whatever the argument
ConfiguredLimit(limit, s) == s.knn_k

\* limit = limit or settings.knn_k: None and 0 are both falsy
EffectiveLimit(limit, s) == IF limit = LimitNone \/ limit = 0 THEN s.knn_k ELSE limit

similarity_search(rows, sc, limit, s) ==
    Take(OrderByDistance(rows, sc), EffectiveLimit(limit, s))

----------------------------------------------------------------------------
(* rerank.rerank: the provider's answer and its parsing                    *)

Num(v) == [t |-> "num", v |-> v]

AbsentScore == [t |-> "absent", v |-> 0]

NonNumericScore == [t |-> "str", v |-> 0]

Item(doc_id, chunk_id, score) ==
    [obj |-> TRUE, doc_id |-> doc_id, chunk_id |-> chunk_id, score |-> score]

\* a ranking entry that is not a JSON object (a number, a string)
NonObjectItem == [obj |-> FALSE, doc_id |-> "", chunk_id |-> 0, score |-> AbsentScore]

\* keys a ranking may name: two stored keys and one that no candidate has
RankKeys == {<<"d1", 0>>, <<"d2", 0>>, <<"zz", 9>>}

RankItems ==
    {Item(k[1], k[2], sc) : k \in RankKeys, sc \in {Num(2), AbsentScore}}
    \cup {NonObjectItem, Item("d1", 0, NonNumericScore)}

Response(json, ranking, items) == [json |-> json, ranking |-> ranking, items |-> items]

\* message contents the rerank provider may answer with:
\*   json    "empty" (None or ""), "invalid" (not JSON), "nonobject" (JSON list,
\*           number, ...), "object"
\*   ranking "absent" (no such key), "noniterable" (null, number), "list"
Responses ==
    { Response("empty", "absent", <<>>), Response("invalid", "absent", <<>>),
      Response("nonobject", "absent", <<>>), Response("object", "absent", <<>>),
      Response("object", "noniterable", <<>>) }
    \cup {Response("object", "list", items) : items \in SeqsUpTo(RankItems, MaxRanking)}

NoResponse == Response("none", "absent", <<>>)

\* float(item.get("score", 0.0))
ItemScore(item) == IF item.score.t = "absent" THEN 0 ELSE item.score.v

\* the dict comprehension of lines 101-104: later entries overwrite earlier ones;
\* the first entry that is no object or has a non-numeric score raises
RECURSIVE score_map(_)
score_map(items) ==
    IF items = <<>> THEN [exc |-> "none", map |-> EmptyMap]
    ELSE LET prev == score_map(Front(items))
             item == Last(items)
             k == <<item.doc_id, item.chunk_id>>
         IN  IF prev.exc # "none" THEN prev
             ELSE IF ~item.obj THEN [exc |-> "AttributeError", map |-> prev.map]
             ELSE IF item.score.t = "str" THEN [exc |-> "ValueError", map |-> prev.map]
             ELSE [exc |-> "none",
                   map |-> [x \in DOMAIN prev.map \cup {k} |->
                               IF x = k THEN ItemScore(item) ELSE prev.map[x]]]

\* the sort key: score_map.get((c.doc_id, c.chunk_id), c.score)
SortKey(c, m) == IF Key(c) \in DOMAIN m THEN m[Key(c)] ELSE c.score

\* variant: an ascending sort that is reversed afterwards (equal keys swap)
InsertPositionBeforeEqual(done, x, m) ==
    Cardinality({i \in 1..Len(done) : SortKey(done[i], m) > SortKey(x, m)})

\* where sorted(..., reverse=True) puts x among the elements already placed:
\* behind every element whose key is not smaller
InsertPosition(done, x, m) ==
    Cardinality({i \in 1..Len(done) : SortKey(done[i], m) >= SortKey(x, m)})

\* sorted(candidates, key=..., reverse=True)
RECURSIVE sorted_reverse(_, _)
sorted_reverse(cands, m) ==
    IF cands = <<>> THEN <<>>
    ELSE LET done == sorted_reverse(Front(cands), m)
             x == Last(cands)
             idx == InsertPosition(done, x, m)
         IN  SubSeq(done, 1, idx) \o <<x>> \o SubSeq(done, idx + 1, Len(done))

\* variant: the result is built from the candidates the ranking names
RerankParseRankedOnly(cands, resp) ==
    IF resp.json = "invalid" THEN Returns(cands)
    ELSE IF resp.json = "nonobject" THEN Raises("AttributeError", "parse")
    ELSE IF resp.ranking = "noniterable" THEN Raises("TypeError", "parse")
    ELSE LET sm == score_map(IF resp.ranking = "list" THEN resp.items ELSE <<>>)
             Named(c) == Key(c) \in DOMAIN sm.map
         IN  IF sm.exc # "none" THEN Raises(sm.exc, "parse")
             ELSE Returns(sorted_reverse(SelectSeq(cands, Named), sm.map))

\* lines 92-111: from the provider's message content to the return value
RerankParse(cands, resp) ==
    IF resp.json = "invalid" THEN Returns(cands)
    ELSE IF resp.json = "nonobject" THEN Raises("AttributeError", "parse")
    ELSE IF resp.ranking = "noniterable" THEN Raises("TypeError", "parse")
    ELSE LET sm == score_map(IF resp.ranking = "list" THEN resp.items ELSE <<>>)
         IN  IF sm.exc # "none" THEN Raises(sm.exc, "parse")
             ELSE Returns(sorted_reverse(cands, sm.map))

\* variant: `and` in place of `or`
RerankSkippedBoth(s, cands) == ~needs_rerank(s) /\ cands = <<>>

\* the early return of lines 74-75
RerankSkipped(s, cands) == ~needs_rerank(s) \/ cands = <<>>

\* one execution of the body of rerank; `reply` is what the provider does:
\* [raises |-> class] or [raises |-> "none", content |-> response]
RerankBody(s, cl, cands, reply) ==
    IF RerankSkipped(s, cands) THEN Returns(cands)
    ELSE IF ~ClientAvailable("rerank", cl, s.openai_api_key)
    THEN Raises("RuntimeError", "client")
    ELSE IF reply.raises # "none" THEN AfterCall(Raises(reply.raises, "rerank"))
    ELSE AfterCall(RerankParse(cands, reply.content))

Reply(raises, content) == [raises |-> raises, content |-> content]

\* provider failures drawn as inputs
OpenAIFailures == {"RateLimitError"}

AnthropicFailures == {"AnthropicRateLimitError"}

RerankReplies ==
    {Reply(k, NoResponse) : k \in OpenAIFailures} \cup {Reply("none", r) : r \in Responses}

----------------------------------------------------------------------------
(* embeddings.embed_texts and llm.generate_answer: one execution of the    *)
(* decorated body                                                          *)

\* embed_texts([text]): the client getter, then the provider round trip
EmbedBody(s, cl, reply) ==
    IF ~ClientAvailable("embed", cl, has_embedding_credentials(s))
    THEN Raises("RuntimeError", "client")
    ELSE IF reply.raises # "none" THEN AfterCall(Raises(reply.raises, "embed"))
    ELSE AfterCall(Returns(<<"vector">>))

\* the handle and the credential the configured generation backend uses
LlmClient(s) == IF s.llm_provider = "anthropic" THEN "anthropic" ELSE "openai"

LlmKey(s) == IF s.llm_provider = "anthropic" THEN s.anthropic_api_key ELSE s.openai_api_key

\* the provider round trip both flows make: _get_anthropic()/_get_openai(),
\* then messages.create / chat.completions.create
CompletionBody(s, cl, reply) ==
    IF ~ClientAvailable(LlmClient(s), cl, LlmKey(s))
    THEN Raises("RuntimeError", "client")
    ELSE IF reply.raises # "none" THEN AfterCall(Raises(reply.raises, "generate"))
    ELSE AfterCall(Returns(<<"generated">>))

EmbedReplies == {Reply(k, NoResponse) : k \in OpenAIFailures \cup {"none"}}

CompletionReplies(s) ==
    {Reply(k, NoResponse) :
        k \in (IF s.llm_provider = "anthropic" THEN AnthropicFailures ELSE OpenAIFailures)
              \cup {"none"}}

----------------------------------------------------------------------------
(* scientific_writing: citations and the reference list                    *)

\* A str is a sequence of symbols: characters, and a doc_id as one symbol.
\* The values of the authors and year fields: a str or None
Str(s) == [t |-> "str", s |-> s]

PyNone == [t |-> "none", s |-> <<>>]

\* the truth value of a field in `if self.authors and self.year`
Truthy(v) == v.t = "str" /\ v.s # <<>>

\* f"{v}"
Format(v) == IF v.t = "none" THEN <<"N", "o", "n", "e">> ELSE v.s

\* _extract_metadata: meta.get('authors', ''), meta.get('year', '')
extract_metadata(chunk) ==
    [authors |-> IF "authors" \in DOMAIN chunk.meta THEN chunk.meta.authors ELSE Str(<<>>),
     year |-> IF "year" \in DOMAIN chunk.meta THEN chunk.meta.year ELSE Str(<<>>)]

Citation(item) ==
    [doc_id |-> item.doc_id, chunk_id |-> item.chunk_id,
     authors |-> extract_metadata(item).authors, year |-> extract_metadata(item).year]

\* where pat first occurs in s; Len(s) + 1 if it does not
FirstAt(s, pat) ==
    LET at == {i \in 1..(Len(s) - Len(pat) + 1) : SubSeq(s, i, i + Len(pat) - 1) = pat}
    IN  IF at = {} THEN Len(s) + 1 ELSE CHOOSE i \in at : \A j \in at : i <= j

\* s.split(sep)[0]
split_first(s, sep) == SubSeq(s, 1, FirstAt(s, sep) - 1)

\* the separator ' et al.'
EtAlSeparator == <<" ", "e", "t", " ", "a", "l", ".">>

\* variant: the in-text form looks at the authors only
InTextByAuthors(c) ==
    IF Truthy(c.authors)
    THEN <<"(">> \o strip(split_first(split_first(c.authors.s, <<",">>), EtAlSeparator))
               \o <<",", " ">> \o Format(c.year) \o <<")">>
    ELSE <<"(", c.doc_id, ")">>

\* Citation.in_text
InText(c) ==
    IF Truthy(c.authors) /\ Truthy(c.year)
    THEN <<"(">> \o strip(split_first(split_first(c.authors.s, <<",">>), EtAlSeparator))
               \o <<",", " ">> \o Format(c.year) \o <<")">>
    ELSE <<"(", c.doc_id, ")">>

\* Citation.reference
Reference(c) ==
    IF Truthy(c.authors) /\ Truthy(c.year)
    THEN Format(c.authors) \o <<" ", "(">> \o Format(c.year) \o <<")", ".", " ", c.doc_id>>
    ELSE <<c.doc_id>>

\* ref_key = f"{citation.authors}_{citation.year}"
ref_key(c) == Format(c.authors) \o <<"_">> \o Format(c.year)

\* the references kept by the loop of lines 90-94: the first per ref_key
RECURSIVE first_references(_)
first_references(cits) ==
    IF cits = <<>> THEN <<>>
    ELSE LET done == first_references(Front(cits))
             c == Last(cits)
             seen == {ref_key(cits[i]) : i \in 1..(Len(cits) - 1)}
         IN  IF ref_key(c) \in seen THEN done ELSE Append(done, Reference(c))

\* the symbols of the model's strings in code point order (a doc_id sorts
\* as its first character "d")
Symbols == <<" ", "(", ")", ",", ".", "1", "J", "N", "S", "T", "_", "a", "d1", "d2",
             "e", "l", "n", "o", "t">>

CodePoint(ch) == CHOOSE i \in 1..Len(Symbols) : Symbols[i] = ch

\* a <= b for str
RECURSIVE StrLeq(_, _)
StrLeq(a, b) ==
    IF a = <<>> THEN TRUE
    ELSE IF b = <<>> THEN FALSE
    ELSE IF Head(a) = Head(b) THEN StrLeq(Tail(a), Tail(b))
    ELSE CodePoint(Head(a)) < CodePoint(Head(b))

\* references.sort()
RECURSIVE sort_references(_)
sort_references(refs) ==
    IF refs = <<>> THEN <<>>
    ELSE LET done == sort_references(Front(refs))
             x == Last(refs)
             idx == Cardinality({i \in 1..Len(done) : StrLeq(done[i], x)})
         IN  SubSeq(done, 1, idx) \o <<x>> \o SubSeq(done, idx + 1, Len(done))

\* _build_harvard_references: "" is the empty sequence, otherwise the entries
\* under the heading
build_harvard_references(cits) == sort_references(first_references(cits))

----------------------------------------------------------------------------
(* Results of the two flows                                                *)

NoResult == [text |-> "none", sources |-> <<>>]

\* variant: the sources are cut to the prompt context
AnswerContextOnly(text, sources) == [text |-> text, sources |-> Take(sources, QaContextSize)]

\* Answer(text=..., sources=[RetrievedChunk(...) for item in ranked])
Answer(text, sources) == [text |-> text, sources |-> sources]

ScientificText(text, citations, sources, reference_list) ==
    [text |-> text, citations |-> citations, sources |-> sources,
     reference_list |-> reference_list]

\* ranked[:3] as ContextChunk(doc_id, chunk_id, content)
ContextChunk(item) == [doc_id |-> item.doc_id, chunk_id |-> item.chunk_id,
                       content |-> item.content]

QaContext(rk) == [i \in 1..Len(Take(rk, QaContextSize)) |-> ContextChunk(rk[i])]

\* ranked[:num_sources], each turned into a Citation and a context part
SectionCited(rk, n) == Take(rk, n)

SectionCitations(rk, n) == [i \in 1..Len(SectionCited(rk, n)) |-> Citation(rk[i])]

SectionContext(rk, n) == [i \in 1..Len(SectionCited(rk, n)) |-> ContextChunk(rk[i])]

----------------------------------------------------------------------------
(* Initial state: a freshly imported process, no invocation running        *)

NoCalls == [embed |-> 0, rerank |-> 0, generate |-> 0]

\* no pipeline invocation, no provider client
FlowIdle ==
    /\ clients = {}
    /\ policy = NoPolicy
    /\ w = NoWrapper
    /\ calls = NoCalls
    /\ num_sources = 0
    /\ candidates = <<>>
    /\ response = NoResponse
    /\ ranked = <<>>
    /\ context = <<>>

\* chunk_text is not running
ChunkIdle ==
    /\ in_doc_id = ""
    /\ in_text = <<>>
    /\ sentences = <<>>
    /\ sidx = 0
    /\ window = <<>>
    /\ token_counts = <<>>
    /\ yielded = <<>>
    /\ chunks = <<>>

\* no ingestion worker
StoreIdle ==
    /\ tx = <<>>
    /\ lastUpsert = EmptyMap
    /\ lastIngest = EmptyMap

\* no thread asks for a client handle
ClientsIdle ==
    /\ handle = EmptyMap
    /\ built = EmptyMap
    /\ thread = <<>>

\* no citation was built
CiteIdle ==
    /\ cites = <<>>
    /\ cite_forms = <<>>
    /\ ref_list = <<>>

\* no concurrent callers of a decorated function
RetryIdle ==
    /\ act = <<>>
    /\ prev_sleeps = <<>>

Init ==
    /\ settings \in Environments
    /\ store \in {<<>>, FullStore}
    /\ clients = {}
    /\ op = "none"
    /\ pc = "idle"
    /\ policy = NoPolicy
    /\ w = NoWrapper
    /\ calls = NoCalls
    /\ num_sources = 0
    /\ retrieved = <<>>
    /\ candidates = <<>>
    /\ response = NoResponse
    /\ ranked = <<>>
    /\ context = <<>>
    /\ result = NoResult
    /\ error = NoExc
    /\ in_limit = LimitNone
    /\ ChunkIdle
    /\ environ = UnsetEnviron
    /\ StoreIdle
    /\ ClientsIdle
    /\ CiteIdle
    /\ RetryIdle

----------------------------------------------------------------------------
(* A function decorated directly with retry_with_exponential_backoff      *)

\* decorator arguments a direct user of the decorator passes
DirectPolicies ==
    [max_retries : 0..MaxRetries, initial_delay : {1, 2}, exponential_base : {2, 3},
     max_delay : {5, DefaultMaxDelay}, retryable_exceptions : {OpenAIErrors, AnyException}]

\* what the decorated function does when invoked
FuncOutcomes == {Returns(<<>>), Raises("RateLimitError", "func"), Raises("ValueError", "func")}

\* wrapper(*args, **kwargs) is called
StartCall ==
    /\ pc = "idle"
    /\ \E p \in DirectPolicies :
          /\ policy' = p
          /\ w' = WrapperEnter(p)
    /\ op' = "call"
    /\ pc' = "call"
    /\ UNCHANGED <<settings, store, clients, calls, num_sources, retrieved, candidates,
                   response, ranked, context, result, error>>
    /\ UNCHANGED aux

\* one iteration of the for loop: func is invoked and returns or raises
FuncAttempt ==
    /\ pc = "call"
    /\ w.pc = "try"
    /\ \E out \in FuncOutcomes :
          LET w2 == WrapperStep(w, policy, out)
          IN  /\ w' = w2
              /\ pc' = IF w2.pc = "returned" THEN "done"
                       ELSE IF w2.pc = "raised" THEN "failed" ELSE pc
              /\ error' = IF w2.pc = "raised" THEN w2.out ELSE error
    /\ UNCHANGED <<settings, store, clients, op, policy, calls, num_sources, retrieved,
                   candidates, response, ranked, context, result>>
    /\ UNCHANGED aux

\* time.sleep(delay) returns (any decorated function)
BackoffElapsed ==
    /\ w.pc = "sleep"
    /\ w' = WrapperAfterSleep(w)
    /\ UNCHANGED <<settings, store, clients, op, pc, policy, calls, num_sources, retrieved,
                   candidates, response, ranked, context, result, error>>
    /\ UNCHANGED aux

----------------------------------------------------------------------------
(* rerank.rerank                                                           *)

\* rerank(question, candidates) called directly
StartRerank ==
    /\ pc = "idle"
    /\ \E cands \in SeqsUpTo(DirectCandidates, MaxCands) : candidates' = cands
    /\ op' = "rerank"
    /\ pc' = "rerank"
    /\ policy' = OpenAIPolicy
    /\ w' = WrapperEnter(OpenAIPolicy)
    /\ UNCHANGED <<settings, store, clients, calls, num_sources, retrieved, response,
                   ranked, context, result, error>>
    /\ UNCHANGED aux

\* one execution of rerank's body under its wrapper
RerankAttempt ==
    /\ pc = "rerank"
    /\ w.pc = "try"
    /\ \E reply \in RerankReplies :
          LET out == RerankBody(settings, clients, candidates, reply)
              w2 == WrapperStep(w, policy, out)
          IN  /\ w' = w2
              /\ clients' = IF RerankSkipped(settings, candidates) THEN clients
                            ELSE ClientsAfter("rerank", clients, settings.openai_api_key)
              /\ calls' = IF out.called THEN [calls EXCEPT !.rerank = @ + 1] ELSE calls
              /\ response' = IF out.called /\ reply.raises = "none"
                             THEN reply.content ELSE NoResponse
              /\ ranked' = IF w2.pc = "returned" THEN out.value ELSE ranked
              /\ pc' = IF w2.pc = "returned" THEN (IF op = "rerank" THEN "done" ELSE "ranked")
                       ELSE IF w2.pc = "raised" THEN "failed" ELSE pc
              /\ error' = IF w2.pc = "raised" THEN w2.out ELSE error
    /\ UNCHANGED <<settings, store, op, policy, num_sources, retrieved, candidates,
                   context, result>>
    /\ UNCHANGED aux

----------------------------------------------------------------------------
(* qa.answer_question and scientific_writing.generate_scientific_section   *)

\* answer_question(question) is called
StartQA ==
    /\ pc = "idle"
    /\ op' = "qa"
    /\ pc' = "embed"
    /\ policy' = OpenAIPolicy
    /\ w' = WrapperEnter(OpenAIPolicy)
    /\ UNCHANGED <<settings, store, clients, calls, num_sources, retrieved, candidates,
                   response, ranked, context, result, error>>
    /\ UNCHANGED aux

\* generate_scientific_section(section, topic, num_sources) is called
StartSection ==
    /\ pc = "idle"
    /\ \E n \in {0, 2, DefaultNumSources} : num_sources' = n
    /\ op' = "section"
    /\ pc' = "embed"
    /\ policy' = OpenAIPolicy
    /\ w' = WrapperEnter(OpenAIPolicy)
    /\ UNCHANGED <<settings, store, clients, calls, retrieved, candidates, response,
                   ranked, context, result, error>>
    /\ UNCHANGED aux

\* embed_texts([question])[0]: one execution of the body under its wrapper
EmbedAttempt ==
    /\ pc = "embed"
    /\ w.pc = "try"
    /\ \E reply \in EmbedReplies :
          LET out == EmbedBody(settings, clients, reply)
              w2 == WrapperStep(w, policy, out)
          IN  /\ clients' = ClientsAfter("embed", clients, has_embedding_credentials(settings))
              /\ calls' = IF out.called THEN [calls EXCEPT !.embed = @ + 1] ELSE calls
              /\ w' = IF w2.pc = "returned" THEN NoWrapper ELSE w2
              /\ policy' = IF w2.pc = "returned" THEN NoPolicy ELSE policy
              /\ pc' = IF w2.pc = "returned" THEN "search"
                       ELSE IF w2.pc = "raised" THEN "failed" ELSE pc
              /\ error' = IF w2.pc = "raised" THEN w2.out ELSE error
    /\ UNCHANGED <<settings, store, op, num_sources, retrieved, candidates, response,
                   ranked, context, result>>
    /\ UNCHANGED aux

\* variant: the empty test is dropped
NoneRetrievedNever(rows) == FALSE

\* `if not retrieved:` in both flows
NoneRetrieved(rows) == rows = <<>>

\* the canned results of lines qa.py:23 and scientific_writing.py:222-228
NoMatch(o) == IF o = "qa" THEN Answer("no_match", <<>>)
              ELSE ScientificText("no_match", <<>>, <<>>, <<>>)

\* similarity_search(query_embedding[, limit=num_sources]), the empty test,
\* the conversion to RerankCandidate and the call of rerank
Search ==
    /\ pc = "search"
    /\ \E q \in Queries :
          LET rows == similarity_search(store, Take(q, Len(store)),
                                        IF op = "qa" THEN LimitNone ELSE num_sources,
                                        settings)
          IN  /\ retrieved' = rows
              /\ IF NoneRetrieved(rows)
                 THEN /\ pc' = "done"
                      /\ result' = NoMatch(op)
                      /\ UNCHANGED <<candidates, policy, w>>
                 ELSE /\ pc' = "rerank"
                      /\ candidates' = rows
                      /\ policy' = OpenAIPolicy
                      /\ w' = WrapperEnter(OpenAIPolicy)
                      /\ UNCHANGED result
    /\ UNCHANGED <<settings, store, clients, op, calls, num_sources, response, ranked,
                   context, error>>
    /\ UNCHANGED aux

\* rerank returned to the flow: the prompt context is built and the
\* generation call is entered (decorated generate_answer in answer_question,
\* the bare client call in generate_scientific_section)
BuildContext ==
    /\ pc = "ranked"
    /\ pc' = "generate"
    /\ response' = NoResponse
    /\ context' = IF op = "qa" THEN QaContext(ranked) ELSE SectionContext(ranked, num_sources)
    /\ policy' = IF op = "qa" THEN GeneratePolicy ELSE NoPolicy
    /\ w' = IF op = "qa" THEN WrapperEnter(GeneratePolicy) ELSE NoWrapper
    /\ UNCHANGED <<settings, store, clients, op, calls, num_sources, retrieved, candidates,
                   ranked, result, error>>
    /\ UNCHANGED aux

\* generate_answer(question, context_chunks): one execution under its wrapper
GenerateAnswerAttempt ==
    /\ op = "qa"
    /\ pc = "generate"
    /\ w.pc = "try"
    /\ \E reply \in CompletionReplies(settings) :
          LET out == CompletionBody(settings, clients, reply)
              w2 == WrapperStep(w, policy, out)
          IN  /\ w' = w2
              /\ clients' = ClientsAfter(LlmClient(settings), clients, LlmKey(settings))
              /\ calls' = IF out.called THEN [calls EXCEPT !.generate = @ + 1] ELSE calls
              /\ pc' = IF w2.pc = "returned" THEN "done"
                       ELSE IF w2.pc = "raised" THEN "failed" ELSE pc
              /\ result' = IF w2.pc = "returned" THEN Answer("generated", ranked) ELSE result
              /\ error' = IF w2.pc = "raised" THEN w2.out ELSE error
    /\ UNCHANGED <<settings, store, op, policy, num_sources, retrieved, candidates,
                   response, ranked, context>>
    /\ UNCHANGED aux

\* lines 267-312 of generate_scientific_section: the provider call, made once
\* and outside any wrapper, then the reference list and the result
SectionGenerate ==
    /\ op = "section"
    /\ pc = "generate"
    /\ \E reply \in CompletionReplies(settings) :
          LET out == CompletionBody(settings, clients, reply)
              cits == SectionCitations(ranked, num_sources)
          IN  /\ clients' = ClientsAfter(LlmClient(settings), clients, LlmKey(settings))
              /\ calls' = IF out.called THEN [calls EXCEPT !.generate = @ + 1] ELSE calls
              /\ pc' = IF out.ok THEN "done" ELSE "failed"
              /\ result' = IF out.ok
                           THEN ScientificText("generated", cits, ranked,
                                               build_harvard_references(cits))
                           ELSE result
              /\ error' = IF out.ok THEN error ELSE [out.exc EXCEPT !.n = 1]
    /\ UNCHANGED <<settings, store, op, policy, w, num_sources, retrieved, candidates,
                   response, ranked, context>>
    /\ UNCHANGED aux

----------------------------------------------------------------------------

Next ==
    \/ StartCall
    \/ FuncAttempt
    \/ BackoffElapsed
    \/ StartRerank
    \/ RerankAttempt
    \/ StartQA
    \/ StartSection
    \/ EmbedAttempt
    \/ Search
    \/ BuildContext
    \/ GenerateAnswerAttempt
    \/ SectionGenerate

Spec == Init /\ [][Next]_vars

----------------------------------------------------------------------------
(* Properties of the retry wrapper                                         *)

RECURSIVE Pow(_, _)
Pow(b, e) == IF e = 0 THEN 1 ELSE b * Pow(b, e - 1)

Retryable(e) == e.kind \in policy.retryable_exceptions

AnyAttempt ==
    FuncAttempt \/ RerankAttempt \/ EmbedAttempt \/ GenerateAnswerAttempt \/ BackoffElapsed

\* C1: a wrapped operation is invoked at most max_retries + 1 times in one
\* call; when the last of them raises a retryable error the budget is spent,
\* that very error leaves the wrapper and nothing is attempted afterwards.
RetryBudgetRespected ==
    /\ w.calls <= policy.max_retries + 1
    /\ w.pc \in {"try", "sleep"} => w.calls <= policy.max_retries
    /\ (w.pc = "raised" /\ Retryable(w.exc)) =>
          /\ w.calls = policy.max_retries + 1
          /\ w.exc.n = w.calls
          /\ w.out = w.exc
          /\ error = w.exc
          /\ pc = "failed"
          /\ ~ENABLED AnyAttempt

\* a directly decorated function failed on every one of its attempts
RetryBudgetSpent ==
    /\ op = "call"
    /\ pc = "failed"
    /\ policy.max_retries = MaxRetries
    /\ w.calls = MaxRetries + 1
    /\ Retryable(error)

\* C2: the i-th backoff sleep lasts min(initial_delay * base^(i-1), max_delay)
SleepsFollowDocumentedSchedule ==
    \A i \in 1..Len(w.sleeps) :
        w.sleeps[i] = Min(policy.initial_delay * Pow(policy.exponential_base, i - 1),
                          policy.max_delay)

\* C3: an error outside the retryable set leaves the wrapper at once: the
\* wrapper never sleeps on it, the attempt that raised it is the last one,
\* and the sleeps made are those of the earlier attempts only.
NonRetryablePropagatesAtOnce ==
    /\ w.pc = "sleep" => Retryable(w.exc)
    /\ (w.pc = "raised" /\ ~Retryable(w.exc)) =>
          /\ w.exc.n = w.calls
          /\ w.calls = w.attempt + 1
          /\ Len(w.sleeps) = w.attempt
          /\ w.out = w.exc
          /\ error = w.exc
          /\ pc = "failed"
          /\ ~ENABLED AnyAttempt

\* a non-retryable error after one retried failure, with attempts left
NonRetryableWithBudgetLeft ==
    /\ op = "call"
    /\ pc = "failed"
    /\ ~Retryable(error)
    /\ w.attempt = 1
    /\ w.attempt < policy.max_retries

----------------------------------------------------------------------------
(* Properties of the flows' use of the wrapper                             *)

Flows == {"qa", "section"}

ProviderErrors == OpenAIErrors \cup AnthropicErrors

\* C4: in both flows a provider failure of the embedding, rerank or
\* generation call leaves the flow only after 3 extra attempts of that call
ProviderCallsRetried ==
    (op \in Flows /\ pc = "failed" /\ error.kind \in ProviderErrors) =>
        calls[error.from] = ProviderMaxRetries + 1

\* the same statement for answer_question alone
QaProviderCallsRetried ==
    (op = "qa" /\ pc = "failed" /\ error.kind \in ProviderErrors) =>
        calls[error.from] = ProviderMaxRetries + 1

----------------------------------------------------------------------------
(* Properties of rerank                                                    *)

\* rerank has returned to its caller (a direct caller, or one of the flows)
RerankReturned == (op = "rerank" /\ pc = "done") \/ pc = "ranked"

Triple(c) == <<c.doc_id, c.chunk_id, c.content>>

Count(seq, t) == Cardinality({i \in 1..Len(seq) : Triple(seq[i]) = t})

\* C5: the output of rerank is a permutation of its input: same length and
\* same multiset of (doc_id, chunk_id, content) records
RerankIsPermutation ==
    RerankReturned =>
        /\ Len(ranked) = Len(candidates)
        /\ \A i \in 1..Len(candidates) :
              Count(ranked, Triple(candidates[i])) = Count(candidates, Triple(candidates[i]))
        /\ \A i \in 1..Len(ranked) :
              Count(candidates, Triple(ranked[i])) = Count(ranked, Triple(ranked[i]))

\* rerank reordered its input on a ranking that names a key no candidate
\* has and leaves a candidate out
RerankedOnPartialRanking ==
    /\ RerankReturned
    /\ response.ranking = "list"
    /\ \E i \in 1..Len(response.items) :
          \A j \in 1..Len(candidates) :
              <<response.items[i].doc_id, response.items[i].chunk_id>> # Key(candidates[j])
    /\ \E j \in 1..Len(candidates) :
          \A i \in 1..Len(response.items) :
              <<response.items[i].doc_id, response.items[i].chunk_id>> # Key(candidates[j])
    /\ ranked # candidates

\* the provider answered, and its content is no well-formed ranking object
Malformed(resp) ==
    \/ resp.json \in {"invalid", "nonobject"}
    \/ resp.json = "object" /\ resp.ranking = "noniterable"
    \/ resp.json = "object" /\ resp.ranking = "list" /\
          \E i \in 1..Len(resp.items) : ~resp.items[i].obj \/ resp.items[i].score.t = "str"

\* C6: on a response that is no well-formed ranking object rerank returns
\* the candidates in input order and raises nothing
MalformedResponseFallsBack ==
    Malformed(response) => (RerankReturned /\ ranked = candidates /\ error = NoExc)

\* the part of C6 the code has: content that is not JSON
InvalidJsonFallsBack ==
    response.json = "invalid" => (RerankReturned /\ ranked = candidates /\ error = NoExc)

\* the score the ranking gives candidate c (its last entry for the key of c,
\* 0.0 when that entry has no score), or the similarity score of c
Resolved(c, items) ==
    LET named == {i \in 1..Len(items) : <<items[i].doc_id, items[i].chunk_id>> = Key(c)}
    IN  IF named = {} THEN c.score
        ELSE LET last == CHOOSE i \in named : \A j \in named : j <= i
             IN  IF items[last].score.t = "num" THEN items[last].score.v ELSE 0

IndexPermutations(n) == {p \in [1..n -> 1..n] : \A i, j \in 1..n : p[i] = p[j] => i = j}

\* out is the stable sort of inp by decreasing resolved score
StableDescending(inp, out, items) ==
    /\ Len(out) = Len(inp)
    /\ \E p \in IndexPermutations(Len(inp)) :
          /\ \A i \in 1..Len(inp) : out[i] = inp[p[i]]
          /\ \A i, j \in 1..Len(inp) :
                i < j => \/ Resolved(inp[p[i]], items) > Resolved(inp[p[j]], items)
                         \/ /\ Resolved(inp[p[i]], items) = Resolved(inp[p[j]], items)
                            /\ p[i] < p[j]

\* the ranking entries of a parseable response
RankingOf(resp) == IF resp.ranking = "list" THEN resp.items ELSE <<>>

\* C7: with reranking enabled and a parseable ranking, the output is the
\* stable sort of the input by resolved score, descending
RerankIsStableSort ==
    (RerankReturned /\ response.json \in {"empty", "object"} /\ ~Malformed(response)) =>
        StableDescending(candidates, ranked, RankingOf(response))

\* rerank reordered its input and left two candidates of equal resolved
\* score, one of them named by the ranking, next to each other
RerankedWithTie ==
    /\ RerankReturned
    /\ response.ranking = "list"
    /\ ranked # candidates
    /\ \E i \in 1..(Len(ranked) - 1) :
          /\ Resolved(ranked[i], response.items) = Resolved(ranked[i + 1], response.items)
          /\ Resolved(ranked[i], response.items) # ranked[i].score

\* C8: rerank of an empty list, or with reranking disabled, returns its
\* input as it is, makes no provider round trip, constructs no client and
\* needs no credential (it cannot fail)
RerankIdentityWhenSkipped ==
    (candidates = <<>> \/ settings.rerank_provider = "") =>
        /\ calls.rerank = 0
        /\ "rerank" \notin clients
        /\ RerankReturned => (ranked = candidates /\ w.calls = 1 /\ w.sleeps = <<>>)
        /\ op = "rerank" => pc \in {"rerank", "done"}
        /\ (op = "rerank" /\ pc = "rerank") => w = WrapperEnter(OpenAIPolicy)

\* rerank returned a non-empty list untouched, without an OpenAI key
RerankDisabledWithoutKey ==
    /\ op = "rerank"
    /\ pc = "done"
    /\ ~needs_rerank(settings)
    /\ ~settings.openai_api_key
    /\ Len(candidates) = MaxCands

\* rerank returned the empty list, reranking enabled, without an OpenAI key
RerankEmptyWithoutKey ==
    /\ op = "rerank"
    /\ pc = "done"
    /\ needs_rerank(settings)
    /\ ~settings.openai_api_key
    /\ candidates = <<>>

----------------------------------------------------------------------------
(* Properties of the two flows                                             *)

KeySet(seq) == {Key(seq[i]) : i \in 1..Len(seq)}

\* C9: a completed flow whose retrieval returned n >= 1 candidates lists
\* all n in sources, in reranked order; answer_question puts exactly the
\* first min(3, n) of them into the prompt
SourcesListEveryCandidate ==
    (op \in Flows /\ pc = "done" /\ Len(retrieved) >= 1) =>
        /\ Len(result.sources) = Len(retrieved)
        /\ KeySet(result.sources) = KeySet(retrieved)
        /\ result.sources = ranked
        /\ op = "qa" =>
              /\ Len(context) = Min(3, Len(retrieved))
              /\ \A i \in 1..Len(context) :
                    /\ <<context[i].doc_id, context[i].chunk_id>> = Key(ranked[i])
                    /\ context[i].content = ranked[i].content

\* answer_question completed on four reordered candidates, three in the prompt
QaAnsweredFromFour ==
    /\ op = "qa"
    /\ pc = "done"
    /\ Len(retrieved) = 4
    /\ Len(context) = 3
    /\ ranked # retrieved
    /\ Len(result.sources) = 4

\* C10: when retrieval returns nothing the flow returns the canned no-match
\* result with empty sources (and empty citations and reference list), and
\* neither the rerank nor the generation provider is called in the invocation
EmptyRetrievalIsCanned ==
    op \in Flows =>
        /\ pc \in {"rerank", "ranked", "generate"} => retrieved # <<>>
        /\ retrieved = <<>> => (calls.rerank = 0 /\ calls.generate = 0)
        /\ (pc = "done" /\ retrieved = <<>>) =>
              /\ result.text = "no_match"
              /\ result.sources = <<>>
              /\ op = "section" => (result.citations = <<>> /\ result.reference_list = <<>>)

\* generate_scientific_section returned the canned result on an empty store
SectionOnEmptyStore ==
    /\ op = "section"
    /\ pc = "done"
    /\ store = <<>>
    /\ calls.embed >= 1
    /\ result.text = "no_match"

----------------------------------------------------------------------------
(* Specification SpecSearch: retrieval.similarity_search called directly   *)
(* against a documents table                                               *)

\* a row whose meta column holds a JSON null (the column is NOT NULL, which
\* a JSON null satisfies; ingest itself always writes {"source": doc_id})
NullMetaRow == [Row("d2", 1, "t21") EXCEPT !.meta = JsonNull]

SearchRows == << Row("d1", 0, "t10"), Row("d1", 1, "t11"), Row("d2", 0, "t20"), NullMetaRow >>

\* the rows of seq at the positions in S, in their order
RECURSIVE Restrict(_, _)
Restrict(seq, S) ==
    IF seq = <<>> THEN <<>>
    ELSE Restrict(Front(seq), S) \o (IF Len(seq) \in S THEN <<Last(seq)>> ELSE <<>>)

\* tables the search runs against: any of the rows, one row per key
SearchStores == {Restrict(SearchRows, S) : S \in SUBSET (1..Len(SearchRows))}

\* limit arguments of the callers: omitted, 0, and widths below and above
\* the size of the table
SearchLimits == {LimitNone, 0, 1, 3, 5}

\* orders in which the database may scan n rows; rows at the same distance
\* come out of ORDER BY in scan order
ScanOrders(n) == {f \in [1..n -> 1..n] : \A i, j \in 1..n : f[i] = f[j] => i = j}

InitSearch ==
    /\ settings \in Environments
    /\ store \in SearchStores
    /\ op = "none"
    /\ pc = "idle"
    /\ retrieved = <<>>
    /\ result = NoResult
    /\ error = NoExc
    /\ in_limit = LimitNone
    /\ FlowIdle
    /\ ChunkIdle
    /\ environ = UnsetEnviron
    /\ StoreIdle
    /\ ClientsIdle
    /\ CiteIdle
    /\ RetryIdle

\* similarity_search(embedding, limit): sc[i] is the score the query
\* embedding gives the i-th row scanned
SimilaritySearchCall ==
    /\ pc = "idle"
    /\ \E k \in SearchLimits, scan \in ScanOrders(Len(store)),
          sc \in [1..Len(store) -> Scores] :
          /\ in_limit' = k
          /\ retrieved' = similarity_search([i \in 1..Len(store) |-> store[scan[i]]],
                                            sc, k, settings)
    /\ op' = "search"
    /\ pc' = "done"
    /\ UNCHANGED <<settings, store, clients, policy, w, calls, num_sources, candidates,
                   response, ranked, context, result, error>>
    /\ UNCHANGED <<chunkVars, tx, lastUpsert, lastIngest, handle, built, thread,
                   citeVars, retryVars>>

NextSearch == SimilaritySearchCall

SpecSearch == InitSearch /\ [][NextSearch]_vars

\* C11: similarity_search(v, 0) returns the empty sequence, whatever the
\* query and the table: a width of 0 is honoured as zero.
ZeroLimitReturnsNothing ==
    (op = "search" /\ in_limit = 0) => retrieved = <<>>

\* the row of the table a retrieved chunk was built from
StoredAs(c) == {i \in 1..Len(store) : Key(store[i]) = Key(c)}

\* C12: for a width k >= 1 (the configured knn_k when the argument is
\* omitted) and a table of n rows the search returns exactly min(k, n)
\* chunks, each built from a different row of the table, in order of
\* non-increasing score, with the row's meta or the empty map when the row
\* has none; a width above n returns every row.
SearchReturnsTopK ==
    (op = "search" /\ in_limit # 0) =>
        LET k == IF in_limit = LimitNone THEN settings.knn_k ELSE in_limit
            n == Len(store)
        IN  /\ Len(retrieved) = Min(k, n)
            /\ \A i \in 1..Len(retrieved) :
                  /\ \E r \in StoredAs(retrieved[i]) :
                        /\ retrieved[i].content = store[r].content
                        /\ retrieved[i].meta = IF store[r].meta = JsonNull THEN EmptyMap
                                               ELSE store[r].meta
                  /\ \A j \in 1..Len(retrieved) :
                        Key(retrieved[i]) = Key(retrieved[j]) => i = j
                  /\ i > 1 => retrieved[i - 1].score >= retrieved[i].score
            /\ k > n => KeySet(retrieved) = KeySet(store)

\* a search wider than the table returned all four rows, one of them with
\* a defaulted meta, and had to reorder them
SearchWiderThanStore ==
    /\ op = "search"
    /\ in_limit = 5
    /\ Len(store) = 4
    /\ Len(retrieved) = 4
    /\ Keys(retrieved) # Keys(store)
    /\ retrieved[1].score > retrieved[4].score
    /\ \E i \in 1..4 : retrieved[i].meta = EmptyMap

----------------------------------------------------------------------------
(* Specification SpecStore: ingest.ingest_file run by concurrent workers,  *)
(* each writing through storage.upsert_chunks in a session of its own      *)

\* most chunks chunk_text makes of an ingested file
MaxChunks == 2

\* ingestion workers (processes or threads) sharing the documents table
Workers == {"w1", "w2"}

\* doc_ids in (doc_id, chunk_id) listing order
DocOrder == <<"d1", "d2">>

\* the texts a file holds over time: each pass of ingestion reads one
Passes == {"a", "b"}

\* content of the i-th chunk chunk_text makes of a pass
PassContent(pass, i) == [pass |-> pass, part |-> i]

\* models = [_chunk_to_model(chunk, embedding) for ...]: chunk_ids are
\* 0..m-1 (chunk_text enumerates), meta is {"source": doc_id}
IngestModels(doc, pass, m) == [i \in 1..m |-> Row(doc, i - 1, PassContent(pass, i - 1))]

DocRank(doc) == CHOOSE i \in 1..Len(DocOrder) : DocOrder[i] = doc

KeyBefore(k1, k2) ==
    \/ DocRank(k1[1]) < DocRank(k2[1])
    \/ k1[1] = k2[1] /\ k1[2] < k2[2]

\* a new row enters the table (listed at its place by key)
InsertRow(table, row) ==
    LET idx == Cardinality({i \in 1..Len(table) : KeyBefore(Key(table[i]), Key(row))})
    IN  SubSeq(table, 1, idx) \o <<row>> \o SubSeq(table, idx + 1, Len(table))

\* DO UPDATE SET content, embedding, meta = excluded.* on the rows in conflict
UpdateRow(table, row) ==
    [i \in 1..Len(table) |->
        IF Key(table[i]) = Key(row)
        THEN [table[i] EXCEPT !.content = row.content, !.embedding = row.embedding,
                              !.meta = row.meta]
        ELSE table[i]]

\* what INSERT ... ON CONFLICT ON CONSTRAINT uq_doc_chunk does for a row,
\* given the rows it finds committed
UpsertKind(table, row) ==
    IF \E i \in 1..Len(table) : Key(table[i]) = Key(row) THEN "update" ELSE "insert"

Write(kind, row) == [kind |-> kind, row |-> row]

ApplyWrite(table, wr) ==
    IF wr.kind = "insert" THEN InsertRow(table, wr.row) ELSE UpdateRow(table, wr.row)

\* session.commit(): the writes of the session become visible together
RECURSIVE ApplyWrites(_, _)
ApplyWrites(table, writes) ==
    IF writes = <<>> THEN table
    ELSE ApplyWrite(ApplyWrites(table, Front(writes)), Last(writes))

\* variant: a rollback that leaves the statements of the session in place
RollbackKeepsWrites(table, writes) == ApplyWrites(table, writes)

\* session.rollback() (or session.close() with the transaction open): none
\* of the writes of the session reaches the table
Rollback(table, writes) == table

\* one upsert statement run and committed by itself
UpsertStatement(table, row) == ApplyWrite(table, Write(UpsertKind(table, row), row))

NoTx == [pc |-> "idle", models |-> <<>>, writes |-> <<>>]

\* keys a session has written and not yet committed
WrittenBy(t) == {Key(t.writes[i].row) : i \in 1..Len(t.writes)}
\* a statement never waited for another session
NeverBlocked(wk, key) == FALSE

\* the statement waits while another open session has an uncommitted write
\* of the same key (the unique index makes it wait for that session's end)
Blocked(wk, key) ==
    \E other \in Workers \ {wk} : tx[other].pc = "session" /\ key \in WrittenBy(tx[other])

\* the environment of the workers (ingestion into the table reads none of
\* the modelled settings)
WorkerSettings == Settings("", TRUE, "anthropic", FALSE, DefaultKnnK)

InitStore ==
    /\ settings = WorkerSettings
    /\ store = <<>>
    /\ op = "none"
    /\ pc = "idle"
    /\ retrieved = <<>>
    /\ result = NoResult
    /\ error = NoExc
    /\ in_limit = LimitNone
    /\ tx = [wk \in Workers |-> NoTx]
    /\ lastUpsert = EmptyMap
    /\ lastIngest = EmptyMap
    /\ FlowIdle
    /\ ChunkIdle
    /\ environ = UnsetEnviron
    /\ ClientsIdle
    /\ CiteIdle
    /\ RetryIdle

StoreUnchanged ==
    /\ UNCHANGED <<settings, clients, op, pc, policy, w, calls, num_sources, retrieved,
                   candidates, response, ranked, context, result, error>>
    /\ UNCHANGED <<chunkVars, in_limit, handle, built, thread, citeVars, retryVars>>

\* ingest_file(path, doc_id) up to the opening of the session in
\* upsert_chunks: the file is converted, chunked and embedded
IngestFile ==
    /\ \E wk \in Workers, doc \in {DocOrder[i] : i \in 1..Len(DocOrder)},
          pass \in Passes, m \in 1..MaxChunks :
          /\ tx[wk].pc \in {"idle", "failed", "rolled_back"}
          /\ tx' = [tx EXCEPT ![wk] = [pc |-> "session",
                                       models |-> IngestModels(doc, pass, m),
                                       writes |-> <<>>]]
    /\ UNCHANGED <<store, lastUpsert, lastIngest>>
    /\ StoreUnchanged

\* session.execute(stmt) for the next chunk of chunks_list
ExecuteUpsert ==
    /\ \E wk \in Workers :
          LET t == tx[wk]
              row == t.models[Len(t.writes) + 1]
          IN  /\ t.pc = "session"
              /\ Len(t.writes) < Len(t.models)
              /\ ~Blocked(wk, Key(row))
              /\ tx' = [tx EXCEPT ![wk].writes =
                           Append(@, Write(UpsertKind(store, row), row))]
    /\ UNCHANGED <<store, lastUpsert, lastIngest>>
    /\ StoreUnchanged

\* the with block ends: session.commit(), and ingest_file returns
CommitSession ==
    /\ \E wk \in Workers :
          LET t == tx[wk]
              written == {Key(t.models[i]) : i \in 1..Len(t.models)}
          IN  /\ t.pc = "session"
              /\ Len(t.writes) = Len(t.models)
              /\ store' = ApplyWrites(store, t.writes)
              /\ lastUpsert' = [k \in DOMAIN lastUpsert \cup written |->
                                   IF k \in written
                                   THEN t.models[CHOOSE i \in 1..Len(t.models) :
                                                     Key(t.models[i]) = k]
                                   ELSE lastUpsert[k]]
              /\ lastIngest' = [d \in DOMAIN lastIngest \cup {t.models[1].doc_id} |->
                                   IF d = t.models[1].doc_id THEN t.models
                                   ELSE lastIngest[d]]
              /\ tx' = [tx EXCEPT ![wk] = NoTx]
    /\ StoreUnchanged

\* ingest_file raises before upsert_chunks opens a session: validate_file,
\* convert_to_markdown, the empty-content checks, chunk_text, or embed_texts
\* once its retries are used up
IngestFileFails ==
    /\ \E wk \in Workers :
          /\ tx[wk].pc = "idle"
          /\ tx' = [tx EXCEPT ![wk] = [pc |-> "failed", models |-> <<>>, writes |-> <<>>]]
    /\ UNCHANGED <<store, lastUpsert, lastIngest>>
    /\ StoreUnchanged

\* a statement or the commit raises inside the with block of upsert_chunks:
\* get_session rolls back and closes, the exception leaves ingest_file
\* ("rolled_back" when statements of the session had run)
SessionFails ==
    /\ \E wk \in Workers :
          /\ tx[wk].pc = "session"
          /\ store' = Rollback(store, tx[wk].writes)
          /\ tx' = [tx EXCEPT ![wk] =
                       [pc |-> IF tx[wk].writes = <<>> THEN "failed" ELSE "rolled_back",
                        models |-> <<>>, writes |-> <<>>]]
    /\ UNCHANGED <<lastUpsert, lastIngest>>
    /\ StoreUnchanged

NextStore ==
    \/ IngestFile
    \/ ExecuteUpsert
    \/ CommitSession
    \/ IngestFileFails
    \/ SessionFails

SpecStore == InitStore /\ [][NextStore]_vars

\* C13: whatever upserts were committed, in whatever interleaving, the
\* table holds at most one row per (doc_id, chunk_id), that row carries the
\* content, vector and meta of the upsert of the key committed last, and
\* running an upsert identical to it again leaves the table as it is.
OneRowPerKeyLastUpsertWins ==
    /\ \A i, j \in 1..Len(store) : Key(store[i]) = Key(store[j]) => i = j
    /\ \A i \in 1..Len(store) :
          /\ Key(store[i]) \in DOMAIN lastUpsert
          /\ store[i] = lastUpsert[Key(store[i])]
    /\ \A k \in DOMAIN lastUpsert :
          /\ \E i \in 1..Len(store) : Key(store[i]) = k
          /\ UpsertStatement(store, lastUpsert[k]) = store

\* two workers ingest the same doc_id concurrently, after an earlier pass
\* was committed: w1 has run both its statements and not yet committed,
\* w2 waits for it with its first statement
ConcurrentIngestionsOfOneDoc ==
    /\ tx["w1"].pc = "session" /\ tx["w2"].pc = "session"
    /\ tx["w1"].models[1].doc_id = "d1" /\ tx["w2"].models[1].doc_id = "d1"
    /\ tx["w1"].models[1].content.pass # tx["w2"].models[1].content.pass
    /\ Len(tx["w1"].writes) = 2
    /\ tx["w1"].writes[1].kind = "update"
    /\ tx["w1"].writes[2].kind = "insert"
    /\ tx["w2"].writes = <<>>
    /\ Blocked("w2", <<"d1", 0>>)
    /\ Len(store) = 1

\* the rows the table holds for a doc_id
RowsOf(doc) == SelectSeq(store, LAMBDA r : r.doc_id = doc)

\* C14: after a successful re-ingestion of a doc_id the rows stored for it
\* are exactly the chunks 0..m-1 of that pass; no row of an earlier pass is
\* left.
ReingestionSupersedes ==
    \A d \in DOMAIN lastIngest : RowsOf(d) = lastIngest[d]

\* the session of worker wk commits in this step: all its statements ran
CommitsIn(wk) ==
    /\ tx[wk].pc = "session"
    /\ tx'[wk] = NoTx
    /\ Len(tx[wk].writes) = Len(tx[wk].models)

\* the invocation of worker wk fails in this step
FailsIn(wk) ==
    /\ tx[wk].pc \notin {"failed", "rolled_back"}
    /\ tx'[wk].pc \in {"failed", "rolled_back"}

\* C23: a failing ingestion, whatever the stage it fails at (before the
\* session, between two statements of the upsert, at the commit), leaves
\* the stored rows exactly as they were, none of its rows persisted, and
\* leaves the sessions of the other workers as they were; the stored rows
\* change only by the commit of a session that ran all its statements.
FailureLeavesStoreIntact ==
    [][ /\ \A wk \in Workers :
              FailsIn(wk) =>
                  /\ store' = store
                  /\ lastUpsert' = lastUpsert
                  /\ \A other \in Workers \ {wk} : tx'[other] = tx[other]
        /\ store' # store => \E wk \in Workers : CommitsIn(wk) ]_vars

\* the session of w1 failed after statements of it had run, while w2 has
\* a session open that wrote a row not in the table, which still holds
\* exactly the row committed before
FailedPartWayThroughUpsert ==
    /\ tx["w1"].pc = "rolled_back"
    /\ tx["w2"].pc = "session"
    /\ Len(tx["w2"].writes) = 1
    /\ tx["w2"].writes[1].kind = "insert"
    /\ Len(store) = 1
    /\ store[1] = lastUpsert[Key(store[1])]

----------------------------------------------------------------------------
(* Specification SpecClients: threads of one process calling the lazy      *)
(* client getters embeddings._get_client, rerank._get_client,              *)
(* llm._get_anthropic and llm._get_openai.  A thread may be preempted      *)
(* between any two steps of a getter; no getter takes a lock.              *)

Threads == {"t1", "t2"}

Getters == {"embed", "rerank", "anthropic", "openai"}

\* the credential a getter requires before it constructs its client
GetterKey(g, s) == IF g = "anthropic" THEN s.anthropic_api_key ELSE s.openai_api_key

\* the value None of a module-level handle
NoHandle == 0

NoThread == [pc |-> "idle", getter |-> "", obj |-> NoHandle, got |-> NoHandle]

InitClients ==
    /\ settings \in Environments
    /\ store = <<>>
    /\ op = "none"
    /\ pc = "idle"
    /\ retrieved = <<>>
    /\ result = NoResult
    /\ error = NoExc
    /\ in_limit = LimitNone
    /\ handle = [g \in Getters |-> NoHandle]
    /\ built = [g \in Getters |-> 0]
    /\ thread = [t \in Threads |-> NoThread]
    /\ FlowIdle
    /\ ChunkIdle
    /\ environ = UnsetEnviron
    /\ StoreIdle
    /\ CiteIdle
    /\ RetryIdle

ClientsUnchanged ==
    /\ UNCHANGED <<settings, store, clients, op, pc, policy, w, calls, num_sources,
                   retrieved, candidates, response, ranked, context, result, error>>
    /\ UNCHANGED <<chunkVars, in_limit, tx, lastUpsert, lastIngest, citeVars, retryVars>>

\* a thread calls one of the getters (from embed_texts, rerank or
\* generate_answer); a thread that got its answer may call again
CallGetter ==
    /\ \E t \in Threads, g \in Getters :
          /\ thread[t].pc \in {"idle", "returned", "raised"}
          /\ thread' = [thread EXCEPT ![t] = [NoThread EXCEPT !.pc = "test", !.getter = g]]
    /\ UNCHANGED <<handle, built>>
    /\ ClientsUnchanged

\* if _client is None: [if not <credential>: raise RuntimeError(...)]
TestHandle ==
    /\ \E t \in Threads :
          /\ thread[t].pc = "test"
          /\ thread' = [thread EXCEPT ![t].pc =
                           IF handle[thread[t].getter] # NoHandle THEN "return"
                           ELSE IF GetterKey(thread[t].getter, settings) THEN "construct"
                           ELSE "raised"]
    /\ UNCHANGED <<handle, built>>
    /\ ClientsUnchanged

\* the right-hand side OpenAI(api_key=...) / Anthropic(api_key=...) runs:
\* a new client object
ConstructClient ==
    /\ \E t \in Threads :
          LET g == thread[t].getter
          IN  /\ thread[t].pc = "construct"
              /\ built' = [built EXCEPT ![g] = @ + 1]
              /\ thread' = [thread EXCEPT ![t].pc = "assign", ![t].obj = built[g] + 1]
    /\ UNCHANGED handle
    /\ ClientsUnchanged

\* _client = <the new object>
AssignHandle ==
    /\ \E t \in Threads :
          /\ thread[t].pc = "assign"
          /\ handle' = [handle EXCEPT ![thread[t].getter] = thread[t].obj]
          /\ thread' = [thread EXCEPT ![t].pc = "return"]
    /\ UNCHANGED built
    /\ ClientsUnchanged

\* return _client: the global is read again
ReturnHandle ==
    /\ \E t \in Threads :
          /\ thread[t].pc = "return"
          /\ thread' = [thread EXCEPT ![t].pc = "returned",
                                      ![t].got = handle[thread[t].getter]]
    /\ UNCHANGED <<handle, built>>
    /\ ClientsUnchanged

NextClients ==
    \/ CallGetter
    \/ TestHandle
    \/ ConstructClient
    \/ AssignHandle
    \/ ReturnHandle

SpecClients == InitClients /\ [][NextClients]_vars

\* C15: under any interleaving of first uses each client handle is
\* constructed at most once in the process, and all callers of a getter
\* are handed the same object.
ClientsConstructedOnce ==
    /\ \A g \in Getters : built[g] <= 1
    /\ \A t1, t2 \in Threads :
          (/\ thread[t1].pc = "returned"
           /\ thread[t2].pc = "returned"
           /\ thread[t1].getter = thread[t2].getter) => thread[t1].got = thread[t2].got

----------------------------------------------------------------------------
(* Specification SpecChunk: chunking.chunk_text on one text.  A text is a  *)
(* sequence of characters: "w" a word character, "." a sentence            *)
(* terminator ([.!?]), " " whitespace (tabs, newlines and the "\r" that    *)
(* split_sentences first turns into a space are split and stripped like   *)
(* the space).                                                             *)

\* longest text given to chunk_text
MaxTextLen == 7
\* largest MAX_TOKENS setting
LargestMaxTokens == 3

Chars == {"w", ".", " "}

Texts == SeqsUpTo(Chars, MaxTextLen)

\* values MAX_TOKENS may hold
MaxTokensTexts == {EnvUnset, EnvNotInt} \cup {EnvInt(n) : n \in 0..LargestMaxTokens}

\* values OVERLAP_TOKENS may hold
OverlapTokensTexts == {EnvUnset, EnvNotInt} \cup {EnvInt(n) : n \in (0 - 1)..LargestMaxTokens}

\* position i of t lies in a match of (?<=[.!?])\s+ : whitespace of a run
\* that directly follows a terminator
Separates(t, i) ==
    /\ t[i] = " "
    /\ \E j \in 1..(i - 1) : t[j] = "." /\ \A k \in (j + 1)..i : t[k] = " "

\* re.split(r"(?<=[.!?])\s+", text) from position i on
RECURSIVE re_split(_, _)
re_split(t, i) ==
    LET seps == {j \in i..Len(t) : Separates(t, j)}
    IN  IF seps = {} THEN << SubSeq(t, i, Len(t)) >>
        ELSE LET b == CHOOSE j \in seps : \A k \in seps : j <= k
                 e == CHOOSE j \in seps : /\ \A k \in b..j : k \in seps
                                          /\ (j + 1) \notin seps
             IN  << SubSeq(t, i, b - 1) >> \o re_split(t, e + 1)

\* [part.strip() for part in parts if part.strip()]
split_sentences(t) ==
    LET parts == re_split(t, 1)
    IN  SelectSeq([i \in 1..Len(parts) |-> strip(parts[i])], LAMBDA p : p # <<>>)

\* len(s.split())
TokenCount(s) ==
    Cardinality({i \in 1..Len(s) : s[i] # " " /\ (i = 1 \/ s[i - 1] = " ")})

RECURSIVE Sum(_)
Sum(counts) == IF counts = <<>> THEN 0 ELSE Sum(Front(counts)) + Last(counts)

\* " ".join(strings)
RECURSIVE Join(_)
Join(strings) ==
    IF strings = <<>> THEN <<>>
    ELSE IF Len(strings) = 1 THEN strings[1]
    ELSE Join(Front(strings)) \o <<" ">> \o Last(strings)

Window(win, counts) == [window |-> win, token_counts |-> counts]

\* while sum(token_counts) > max_tokens and window: pop(0) of both
RECURSIVE PopWhileOver(_, _, _)
PopWhileOver(win, counts, max_tokens) ==
    IF Sum(counts) > max_tokens /\ win # <<>>
    THEN PopWhileOver(Tail(win), Tail(counts), max_tokens)
    ELSE Window(win, counts)

\* the loop over zip(reversed(window), reversed(token_counts)) that builds
\* trimmed_window and trimmed_counts
RECURSIVE TrimmedWindow(_, _, _)
TrimmedWindow(win, counts, overlap_tokens) ==
    IF overlap_tokens <= 0 \/ win = <<>> THEN Window(<<>>, <<>>)
    ELSE LET rest == TrimmedWindow(Front(win), Front(counts), overlap_tokens - Last(counts))
         IN  Window(Append(rest.window, Last(win)), Append(rest.token_counts, Last(counts)))

\* the test that makes the generator yield the window
WindowFull(counts, cfg) == Sum(counts) >= cfg.max_tokens - cfg.overlap_tokens

\* a yielded string, with the sentences (positions in `sentences`) it joins
Yield(sents, win) ==
    [content |-> Join([i \in 1..Len(win) |-> sents[win[i]]]), members |-> win]

\* chunking.Chunk
TextChunk(doc, idx, content) == [doc_id |-> doc, chunk_id |-> idx, content |-> content]
\* only the test `not text`
EmptyText(t) == t = <<>>

\* not text or not text.strip()
Blank(t) == t = <<>> \/ strip(t) = <<>>

InitChunk ==
    /\ environ \in [MAX_TOKENS : MaxTokensTexts, OVERLAP_TOKENS : OverlapTokensTexts]
    /\ settings = NotLoaded
    /\ store = <<>>
    /\ op = "none"
    /\ pc = "import"
    /\ retrieved = <<>>
    /\ result = NoResult
    /\ error = NoExc
    /\ in_limit = LimitNone
    /\ FlowIdle
    /\ ChunkIdle
    /\ StoreIdle
    /\ ClientsIdle
    /\ CiteIdle
    /\ RetryIdle

ChunkUnchanged ==
    /\ UNCHANGED <<settings, store, clients, policy, w, calls, num_sources, retrieved,
                   candidates, response, ranked, context, result>>
    /\ UNCHANGED <<in_limit, tx, lastUpsert, lastIngest, handle, built, thread,
                   citeVars, retryVars, environ>>

\* the process imports rag_agent.settings (chunking imports it first thing)
ImportSettings ==
    /\ pc = "import"
    /\ LET loading == load_settings(environ)
       IN  IF loading.ok
           THEN /\ settings' = loading.settings
                /\ pc' = "idle"
                /\ UNCHANGED error
           ELSE /\ pc' = "import_error"
                /\ error' = Exc("ValueError", "settings", 0)
                /\ UNCHANGED settings
    /\ UNCHANGED <<store, clients, op, policy, w, calls, num_sources, retrieved, candidates,
                   response, ranked, context, result>>
    /\ UNCHANGED aux

\* chunk_text(doc_id, text): the validation and split_sentences
StartChunkText ==
    /\ pc = "idle"
    /\ \E doc \in {"d1", "d2"}, t \in Texts :
          /\ in_doc_id' = doc
          /\ in_text' = t
          /\ IF Blank(t)
             THEN /\ pc' = "failed"
                  /\ error' = Exc("ValueError", "chunk_text", 0)
                  /\ UNCHANGED sentences
             ELSE /\ pc' = "chunking"
                  /\ sentences' = split_sentences(t)
                  /\ UNCHANGED error
    /\ op' = "chunk_text"
    /\ UNCHANGED <<sidx, window, token_counts, yielded, chunks>>
    /\ ChunkUnchanged

\* one iteration of the for loop of _chunk_tokens, and the append of what
\* it yields to chunks
NextSentence ==
    /\ pc = "chunking"
    /\ sidx < Len(sentences)
    /\ LET fit == PopWhileOver(Append(window, sidx + 1),
                               Append(token_counts, TokenCount(sentences[sidx + 1])),
                               settings.max_tokens)
       IN  IF WindowFull(fit.token_counts, settings)
           THEN LET kept == TrimmedWindow(fit.window, fit.token_counts,
                                          settings.overlap_tokens)
                    y == Yield(sentences, fit.window)
                IN  /\ yielded' = Append(yielded, y)
                    /\ chunks' = Append(chunks, TextChunk(in_doc_id, Len(chunks), y.content))
                    /\ window' = kept.window
                    /\ token_counts' = kept.token_counts
           ELSE /\ window' = fit.window
                /\ token_counts' = fit.token_counts
                /\ UNCHANGED <<yielded, chunks>>
    /\ sidx' = sidx + 1
    /\ UNCHANGED <<in_doc_id, in_text, sentences, op, pc, error>>
    /\ ChunkUnchanged

\* the loop is over: the last window is yielded if there is one, the
\* whole text becomes chunk 0 if nothing was yielded, chunk_text returns
ReturnChunks ==
    /\ pc = "chunking"
    /\ sidx = Len(sentences)
    /\ LET last == IF window # <<>> THEN << Yield(sentences, window) >> ELSE <<>>
           listed == chunks \o [i \in 1..Len(last) |->
                                  TextChunk(in_doc_id, Len(chunks), last[i].content)]
       IN  /\ yielded' = yielded \o last
           /\ chunks' = IF listed = <<>> /\ strip(in_text) # <<>>
                        THEN << TextChunk(in_doc_id, 0, strip(in_text)) >>
                        ELSE listed
    /\ pc' = "done"
    /\ UNCHANGED <<in_doc_id, in_text, sentences, sidx, window, token_counts, op, error>>
    /\ ChunkUnchanged

NextChunk ==
    \/ ImportSettings
    \/ StartChunkText
    \/ NextSentence
    \/ ReturnChunks

SpecChunk == InitChunk /\ [][NextChunk]_vars

\* the sentences (positions) a yielded string joins
Members(y) == {y.members[i] : i \in 1..Len(y.members)}

\* tokens of a set of sentences
RECURSIVE TokensOf(_)
TokensOf(S) ==
    IF S = {} THEN 0
    ELSE LET s == CHOOSE x \in S : TRUE
         IN  TokenCount(sentences[s]) + TokensOf(S \ {s})

\* window is what the generator retained of the string it yielded last
RetainedTail ==
    /\ pc = "chunking"
    /\ yielded # <<>>
    /\ \E n \in 0..Len(Last(yielded).members) :
          window = SubSeq(Last(yielded).members,
                          Len(Last(yielded).members) - n + 1, Len(Last(yielded).members))

\* C16: the sentences two consecutive chunks share total at most
\* overlap_tokens tokens, and the tail retained after a yield is the
\* longest suffix of whole sentences of the yielded window that fits within
\* overlap_tokens.
OverlapWithinBudget ==
    /\ \A i \in 1..(Len(yielded) - 1) :
          TokensOf(Members(yielded[i]) \cap Members(yielded[i + 1])) <= settings.overlap_tokens
    /\ RetainedTail =>
          LET m == Last(yielded).members
              fits(n) == TokensOf({m[i] : i \in (Len(m) - n + 1)..Len(m)})
                             <= settings.overlap_tokens
          IN  /\ fits(Len(window))
              /\ Len(window) < Len(m) => ~fits(Len(window) + 1)

\* C17: every sentence of a text is in at least one chunk, the sentences of
\* a chunk are in input order, and no sentence leaves the window before a
\* chunk holding it was yielded (when nothing is yielded the whole text is
\* the one chunk).
EverySentenceEmitted ==
    /\ \A i \in 1..Len(yielded) :
          \A a, b \in 1..Len(yielded[i].members) :
              a < b => yielded[i].members[a] < yielded[i].members[b]
    /\ pc = "chunking" =>
          \A s \in 1..sidx :
              \/ \E i \in 1..Len(window) : window[i] = s
              \/ \E i \in 1..Len(yielded) : s \in Members(yielded[i])
    /\ (pc = "done" /\ yielded # <<>>) =>
          \A s \in 1..Len(sentences) : \E i \in 1..Len(yielded) : s \in Members(yielded[i])

\* C18: a sentence of more than max_tokens tokens, wherever it stands in
\* the text, is one of the chunks returned, whole and by itself.
OversizedSentenceEmittedWhole ==
    pc = "done" =>
        \A s \in 1..Len(sentences) :
            TokenCount(sentences[s]) > settings.max_tokens =>
                \E i \in 1..Len(chunks) : chunks[i].content = sentences[s]

\* C19: chunk_text raises its validation error, with no chunk made, exactly
\* when the text is empty or all whitespace; for any other text it returns
\* at least one chunk, every chunk carries the doc_id given and the chunks
\* are numbered 0..n-1 in the order they were yielded; the trimmed text is
\* chunk 0 when the windowing yielded nothing.
ChunkTextValidatesAndNumbers ==
    /\ pc = "failed" <=> (op = "chunk_text" /\ \A i \in 1..Len(in_text) : in_text[i] = " ")
    /\ pc = "failed" => (chunks = <<>> /\ error.kind = "ValueError")
    /\ pc \in {"chunking", "done"} =>
          \A i \in 1..Len(chunks) :
              /\ chunks[i].doc_id = in_doc_id
              /\ chunks[i].chunk_id = i - 1
    /\ pc = "done" =>
          /\ chunks # <<>>
          /\ error = NoExc
          /\ IF yielded = <<>>
             THEN Len(chunks) = 1 /\ chunks[1].content = strip(in_text)
             ELSE /\ Len(chunks) = Len(yielded)
                  /\ \A i \in 1..Len(chunks) : chunks[i].content = yielded[i].content

\* a text with whitespace around it for which the windowing yielded
\* nothing came back, trimmed, as the single chunk 0
WholeTextBecameChunkZero ==
    /\ pc = "done"
    /\ yielded = <<>>
    /\ in_text # strip(in_text)
    /\ Len(chunks) = 1
    /\ chunks[1].chunk_id = 0
    /\ chunks[1].doc_id = in_doc_id
    /\ chunks[1].content = strip(in_text)

\* C20: a chunk holds at most max_tokens whitespace-separated tokens,
\* unless it consists of one single sentence that is itself longer.
ChunksWithinMaxTokens ==
    \A i \in 1..Len(chunks) :
        \/ TokenCount(chunks[i].content) <= settings.max_tokens
        \/ \E s \in 1..Len(sentences) : chunks[i].content = sentences[s]

\* the integer a variable of the environment configures
Configured(value, default) == IF value.set THEN value.n ELSE default

\* C24: a configuration with overlap_tokens >= max_tokens is rejected
\* before any chunking: the import of the settings fails and chunk_text
\* never starts; whenever the chunker runs, 0 <= overlap_tokens <
\* max_tokens and the emission threshold max_tokens - overlap_tokens is at
\* least 1.
ChunkerRunsUnderValidLimits ==
    /\ (Configured(environ.OVERLAP_TOKENS, DefaultOverlapTokens)
           >= Configured(environ.MAX_TOKENS, DefaultMaxTokens)) =>
          /\ pc \in {"import", "import_error"}
          /\ op = "none"
          /\ chunks = <<>>
    /\ op = "chunk_text" =>
          /\ 0 <= settings.overlap_tokens
          /\ settings.overlap_tokens < settings.max_tokens
          /\ settings.max_tokens - settings.overlap_tokens >= 1

\* MAX_TOKENS=2 with OVERLAP_TOKENS=2 ended the import with the ValueError
\* of _validate_settings
EqualLimitsRejected ==
    /\ pc = "import_error"
    /\ error.kind = "ValueError"
    /\ environ.MAX_TOKENS = EnvInt(2)
    /\ environ.OVERLAP_TOKENS = EnvInt(2)

----------------------------------------------------------------------------
(* The citations of generate_scientific_section in isolation: the loop     *)
(* over ranked[:num_sources] and the reference list, over metadata that     *)
(* carries, lacks or nulls the authors and year keys                       *)

\* at most this many ranked items
MaxCited == 2

\* the key is not in the meta object
Missing == [t |-> "missing", s |-> <<>>]

\* the values of meta['authors']
AuthorsValues ==
    {Missing, PyNone, Str(<<"S", ",", " ", "J">>),
     Str(<<"S", " ", "e", "t", " ", "a", "l", ".">>), Str(<<"T", "_">>), Str(<<"T">>)}

\* the values of meta['year']
YearValues == {Missing, PyNone, Str(<<"1">>), Str(<<"_", "1">>)}

\* the meta object with the keys that are not Missing
MetaWith(authors, year) ==
    [k \in {x \in {"authors", "year"} :
                (x = "authors" /\ authors # Missing) \/ (x = "year" /\ year # Missing)} |->
        IF k = "authors" THEN authors ELSE year]

\* the ranked items the section cites
CitableItems ==
    {[doc_id |-> dc[1], chunk_id |-> dc[2], content |-> "t", score |-> 1,
      meta |-> MetaWith(a, y)] :
        dc \in {<<"d1", 0>>, <<"d2", 1>>}, a \in AuthorsValues, y \in YearValues}

InitCite ==
    /\ settings = WorkerSettings
    /\ store = <<>>
    /\ op = "none"
    /\ pc = "idle"
    /\ retrieved = <<>>
    /\ result = NoResult
    /\ error = NoExc
    /\ in_limit = LimitNone
    /\ FlowIdle
    /\ ChunkIdle
    /\ environ = UnsetEnviron
    /\ StoreIdle
    /\ ClientsIdle
    /\ CiteIdle
    /\ RetryIdle

\* lines 244-260: a Citation and its in-text form for each of
\* ranked[:num_sources]
CiteSources ==
    /\ pc = "idle"
    /\ \E items \in SeqsUpTo(CitableItems, MaxCited), n \in 1..MaxCited :
          /\ ranked' = items
          /\ num_sources' = n
          /\ cites' = SectionCitations(items, n)
          /\ cite_forms' = [i \in 1..Len(SectionCited(items, n)) |-> InText(Citation(items[i]))]
    /\ op' = "section"
    /\ pc' = "cited"
    /\ UNCHANGED <<settings, store, clients, policy, w, calls, retrieved, candidates,
                   response, context, result, error>>
    /\ UNCHANGED <<chunkVars, in_limit, tx, lastUpsert, lastIngest, handle, built, thread,
                   ref_list, retryVars>>

\* line 293: reference_list = _build_harvard_references(citations)
BuildReferences ==
    /\ pc = "cited"
    /\ ref_list' = build_harvard_references(cites)
    /\ pc' = "listed"
    /\ UNCHANGED <<settings, store, clients, op, policy, w, calls, num_sources, retrieved,
                   candidates, response, ranked, context, result, error>>
    /\ UNCHANGED <<chunkVars, in_limit, tx, lastUpsert, lastIngest, handle, built, thread,
                   cites, cite_forms, retryVars>>

NextCite == CiteSources \/ BuildReferences

SpecCite == InitCite /\ [][NextCite]_vars

\* the authors or year of a citation as the reader sees it: absent (None or
\* '') or the text
Seen(v) == IF Truthy(v) THEN v.s ELSE <<>>

PairOf(c) == <<Seen(c.authors), Seen(c.year)>>

\* the citations that are the first with their (authors, year) pair
FirstOfPair(cits) ==
    {i \in 1..Len(cits) : \A j \in 1..(i - 1) : PairOf(cits[j]) # PairOf(cits[i])}

\* C21: the reference list of no citations is empty; otherwise its entries
\* are exactly one per distinct (authors, year) pair, each the reference
\* string of the first citation with that pair (the citations lacking both
\* collapse into the entry of the first of them), in ascending order of the
\* rendered reference string.
ReferenceListOnePerPair ==
    pc = "listed" =>
        /\ cites = <<>> => ref_list = <<>>
        /\ Len(ref_list) = Cardinality(FirstOfPair(cites))
        /\ \E f \in [1..Len(ref_list) -> FirstOfPair(cites)] :
              /\ \A k, l \in 1..Len(ref_list) : k # l => f[k] # f[l]
              /\ \A k \in 1..Len(ref_list) : ref_list[k] = Reference(cites[f[k]])
        /\ \A k \in 1..(Len(ref_list) - 1) : StrLeq(ref_list[k], ref_list[k + 1])

\* the authors field before its first comma or ' et al.' marker, trimmed
Surname(authors) ==
    strip(SubSeq(authors, 1, Min(FirstAt(authors, <<",">>), FirstAt(authors, EtAlSeparator)) - 1))

\* what meta carries under a key: '' when the key is missing or null
Carried(item, key) ==
    IF key \in DOMAIN item.meta /\ item.meta[key].t = "str" THEN item.meta[key].s ELSE <<>>

\* C22: the Citation of a candidate keeps its (doc_id, chunk_id); its
\* in-text form is (<surname>, <year>) when the metadata carries authors
\* and year, the surname being the authors before the first comma or
\* ' et al.' marker, and (<doc_id>) when either is missing or empty.
CitationFormFollowsMetadata ==
    pc \in {"cited", "listed"} =>
        /\ Len(cites) = Min(Len(ranked), num_sources)
        /\ Len(cite_forms) = Len(cites)
        /\ \A i \in 1..Len(cites) :
              /\ cites[i].doc_id = ranked[i].doc_id
              /\ cites[i].chunk_id = ranked[i].chunk_id
              /\ cite_forms[i] =
                    IF Carried(ranked[i], "authors") # <<>> /\ Carried(ranked[i], "year") # <<>>
                    THEN <<"(">> \o Surname(Carried(ranked[i], "authors")) \o <<",", " ">>
                            \o Carried(ranked[i], "year") \o <<")">>
                    ELSE <<"(", ranked[i].doc_id, ")">>

\* 'S et al.' of year 1 was cited as (S, 1), and a source with authors but
\* no year by its doc_id
EtAlAndYearlessCited ==
    /\ pc = "cited"
    /\ Len(cites) = 2
    /\ cites[1].authors = Str(<<"S", " ", "e", "t", " ", "a", "l", ".">>)
    /\ cite_forms[1] = <<"(", "S", ",", " ", "1", ")">>
    /\ Truthy(cites[2].authors)
    /\ ~Truthy(cites[2].year)
    /\ cites[2].chunk_id = 1
    /\ cite_forms[2] = <<"(", "d2", ")">>

----------------------------------------------------------------------------
(* The score field after reranking                                         *)

\* the ranking entries rerank sorted by: none when it fell back
RankingUsed ==
    IF response.json \in {"empty", "object"} /\ ~Malformed(response)
    THEN RankingOf(response) ELSE <<>>

\* C25: every candidate rerank returns carries the resolved score (the
\* model's score when the ranking lists its key, its similarity score
\* otherwise) in its score field, so the scores of result.sources of a
\* completed flow are non-increasing.
SourcesCarryResolvedScore ==
    /\ RerankReturned =>
          \A i \in 1..Len(ranked) : ranked[i].score = Resolved(ranked[i], RankingUsed)
    /\ (op \in Flows /\ pc = "done") =>
          \A i \in 1..(Len(result.sources) - 1) :
              result.sources[i].score >= result.sources[i + 1].score

----------------------------------------------------------------------------
(* Specification SpecRetry: one decorated function called repeatedly and   *)
(* concurrently.  The decorator arguments are fixed when the function is    *)
(* defined; every call of wrapper has its own frame (delay, attempt).       *)

\* threads calling the decorated function
Callers == {"c1", "c2"}

\* calls each thread makes
MaxCallsEach == 2

\* the decorator arguments of the function
SharedPolicies ==
    {p \in DirectPolicies : p.max_delay = 5 /\ p.retryable_exceptions = OpenAIErrors}

\* no call of wrapper was made by the thread
NoActivation == [w |-> NoWrapper, ret |-> 0, nth |-> 0]

\* the n-th invocation of func in a call returns n, or raises
InvocationOutcomes(n) ==
    {Returns(n), Raises("RateLimitError", "func"), Raises("ValueError", "func")}

InitRetry ==
    /\ settings = WorkerSettings
    /\ store = <<>>
    /\ op = "none"
    /\ pc = "idle"
    /\ retrieved = <<>>
    /\ result = NoResult
    /\ error = NoExc
    /\ in_limit = LimitNone
    /\ clients = {}
    /\ policy \in SharedPolicies
    /\ w = NoWrapper
    /\ calls = NoCalls
    /\ num_sources = 0
    /\ candidates = <<>>
    /\ response = NoResponse
    /\ ranked = <<>>
    /\ context = <<>>
    /\ ChunkIdle
    /\ environ = UnsetEnviron
    /\ StoreIdle
    /\ ClientsIdle
    /\ CiteIdle
    /\ act = [c \in Callers |-> NoActivation]
    /\ prev_sleeps = [c \in Callers |-> <<>>]

RetryUnchanged ==
    /\ UNCHANGED <<settings, store, clients, op, pc, policy, w, calls, num_sources,
                   retrieved, candidates, response, ranked, context, result, error>>
    /\ UNCHANGED <<chunkVars, in_limit, tx, lastUpsert, lastIngest, handle, built, thread,
                   citeVars>>

\* a thread calls wrapper(*args, **kwargs): line 38, delay = initial_delay
CallWrapper(c) ==
    /\ act[c].w.pc \in {"none", "returned", "raised"}
    /\ act[c].nth < MaxCallsEach
    /\ prev_sleeps' = [prev_sleeps EXCEPT ![c] = act[c].w.sleeps]
    /\ act' = [act EXCEPT ![c] = [w |-> WrapperEnter(policy), ret |-> 0, nth |-> @.nth + 1]]
    /\ RetryUnchanged

\* one iteration of the for loop of the call of thread c
InvokeFunc(c) ==
    /\ act[c].w.pc = "try"
    /\ \E out \in InvocationOutcomes(act[c].w.calls + 1) :
          act' = [act EXCEPT ![c].w = WrapperStep(@, policy, out),
                             ![c].ret = IF out.ok THEN out.value ELSE @]
    /\ UNCHANGED prev_sleeps
    /\ RetryUnchanged

\* time.sleep(delay) of the call of thread c returns
SleepReturns(c) ==
    /\ act[c].w.pc = "sleep"
    /\ act' = [act EXCEPT ![c].w = WrapperAfterSleep(@)]
    /\ UNCHANGED prev_sleeps
    /\ RetryUnchanged

NextRetry ==
    \/ \E c \in Callers : CallWrapper(c)
    \/ \E c \in Callers : InvokeFunc(c)
    \/ \E c \in Callers : SleepReturns(c)

SpecRetry == InitRetry /\ [][NextRetry]_vars

\* the delay after i backoff updates of a call that began at initial_delay
RECURSIVE DelayAfter(_, _)
DelayAfter(p, i) ==
    IF i = 0 THEN p.initial_delay
    ELSE Min(DelayAfter(p, i - 1) * p.exponential_base, p.max_delay)

\* C26: in every call of the decorated function one sleep follows each
\* failed attempt that is retried and none follows the last attempt, so a
\* finished call slept once less than it invoked; the result of the first
\* attempt that succeeds is returned and nothing is invoked afterwards; the
\* delays of every call start again from initial_delay, whatever the
\* earlier calls or the calls of other threads did.
OneSleepBetweenAttempts ==
    \A c \in Callers :
        LET a == act[c].w
        IN  /\ a.pc \in {"returned", "raised"} => Len(a.sleeps) = a.calls - 1
            /\ a.pc \in {"try", "sleep"} => Len(a.sleeps) = a.calls
            /\ a.pc = "sleep" => a.attempt = a.calls - 1
            /\ a.pc = "try" => a.attempt = a.calls
            /\ a.pc = "returned" =>
                  /\ act[c].ret = a.calls
                  /\ ~ENABLED InvokeFunc(c)
                  /\ ~ENABLED SleepReturns(c)
            /\ \A i \in 1..Len(a.sleeps) : a.sleeps[i] = DelayAfter(policy, i)

\* c1 succeeded at the second attempt of its second call, after a first
\* call that had slept up to the cap, while the call of c2 is asleep
SecondCallSleptAfresh ==
    /\ act["c1"].nth = 2
    /\ act["c1"].w.pc = "returned"
    /\ act["c1"].w.calls = 2
    /\ Len(act["c1"].w.sleeps) = 1
    /\ Len(prev_sleeps["c1"]) = 2
    /\ prev_sleeps["c1"][2] = policy.max_delay
    /\ act["c1"].w.sleeps[1] < policy.max_delay
    /\ act["c2"].w.pc = "sleep"

====
